---- MODULE Spec2Model ----
(***************************************************************************)
(* SimpleVector<Type> of simple_vector.h as a state machine.               *)
(*                                                                         *)
(* Two SimpleVector objects live in the slots Ids.  Each object is the     *)
(* record of its three members: items_ (the address held by its ArrayPtr,  *)
(* 0 for nullptr), size_ and capacity_.  The heap `mem` maps an address to *)
(* the content of the array allocated there (<<>> when nothing is          *)
(* allocated at that address); between operations only the arrays of the   *)
(* two objects are allocated.  Type is an int-like type: Type() is 0, and  *)
(* moving a value leaves the source unchanged.                             *)
(*                                                                         *)
(* Every member function is an operator over a "world" w = [mem, ub] that  *)
(* is computed as the code computes it, statement by statement; `ub`       *)
(* records that an access fell outside the array it was made on.  Such an  *)
(* access is undefined behaviour: the run stops there, and what a slot     *)
(* outside its array reads as is the nondeterministic value `wild`.        *)
(*                                                                         *)
(* A run is any sequence of operations on the two objects.  Its final      *)
(* operation is the observed one: `last` then holds the call (operation,   *)
(* objects, arguments, returned position) and the objects and heap the     *)
(* call started from; until then `last` is NoOp.                           *)
(*                                                                         *)
(* Indices are 0-based, as in the source; the arrays are TLA+ sequences,   *)
(* so slot i of an array is element i + 1 of its sequence.                 *)
(***************************************************************************)
EXTENDS Integers, Sequences, FiniteSets, TLC

\* Largest array the model allocates (a guard of every growing operation).
MaxCap == 4

\* Slots allocated in all, once an operation has returned.
MaxHeap == 4

\* Addresses of the model heap: the arrays of two objects, the array of a
\* constructor under way and the two arrays of the temporary it builds.
NumPtrs == 5

Values == {0, 1}
Ids == {1, 2}
Ptrs == 1..NumPtrs

VARIABLES vec, mem, ub, wild, last

vars == <<vec, mem, ub, wild, last>>

Max(a, b) == IF a >= b THEN a ELSE b

\* Type(): the value-initialised element.
TypeDefault == 0

\* SimpleVector() noexcept = default, and the member initialisers.
SimpleVectorDefault == [ptr |-> 0, size |-> 0, cap |-> 0]

(***************************************************************************)
(* ArrayPtr<Type> (array_ptr.h is not among the sources: modelled from the *)
(* Buffer of the specification).                                           *)
(***************************************************************************)

\* The array an address refers to; nullptr and a released address have none.
Buf(w, p) == IF p = 0 THEN <<>> ELSE w.mem[p]

\* Number of slots allocated at p.
Allocated(w, p) == Len(Buf(w, p))

FreePtr(w) == CHOOSE p \in Ptrs : w.mem[p] = <<>> /\ \A q \in Ptrs : q < p => w.mem[q] # <<>>

\* ArrayPtr(size): allocates exactly Len(raw) slots, whose initial content is
\* raw; size 0 allocates nothing.
ArrayPtrNew(w, raw) ==
    IF raw = <<>> THEN [w |-> w, p |-> 0]
    ELSE LET p == FreePtr(w) IN [w |-> [w EXCEPT !.mem[p] = raw], p |-> p]

\* ~ArrayPtr(): releases the array.
ArrayPtrDelete(w, p) == IF p = 0 THEN w ELSE [w EXCEPT !.mem[p] = <<>>]

\* ArrayPtr::swap and the ownership exchange of ArrayPtr's move assignment.
ArrayPtrSwap(a, b) == [a |-> b, b |-> a]

\* ArrayPtr::operator[] used to write: no bounds check.
Wr(w, p, i, v) ==
    IF i >= 0 /\ i < Allocated(w, p) THEN [w EXCEPT !.mem[p][i + 1] = v]
    ELSE [w EXCEPT !.ub = TRUE]

\* ArrayPtr::operator[] used to read.
InBounds(w, p, i) == i >= 0 /\ i < Allocated(w, p)

Rd(w, p, i) == IF InBounds(w, p, i) THEN Buf(w, p)[i + 1] ELSE TypeDefault

\* *dst = *src on raw pointers into the arrays sp and dp.
Xfer(w, sp, si, dp, di) ==
    IF InBounds(w, sp, si) THEN Wr(w, dp, di, Rd(w, sp, si))
    ELSE [w EXCEPT !.ub = TRUE]

(***************************************************************************)
(* <algorithm>                                                             *)
(***************************************************************************)

\* std::copy / std::move(first, last, d_first): front to back.
RECURSIVE StdCopy(_, _, _, _, _, _)
StdCopy(w, sp, first, lst, dp, d) ==
    IF first >= lst THEN w
    ELSE StdCopy(Xfer(w, sp, first, dp, d), sp, first + 1, lst, dp, d + 1)

\* std::copy_backward / std::move_backward(first, last, d_last): back to front.
RECURSIVE StdCopyBackward(_, _, _, _, _, _)
StdCopyBackward(w, sp, first, lst, dp, dlast) ==
    IF first >= lst THEN w
    ELSE StdCopyBackward(Xfer(w, sp, lst - 1, dp, dlast - 1), sp, first, lst - 1, dp, dlast - 1)

\* std::fill(first, last, value), and the loops that assign one value to a range.
RECURSIVE StdFill(_, _, _, _, _)
StdFill(w, p, first, lst, v) ==
    IF first >= lst THEN w
    ELSE StdFill(Wr(w, p, first, v), p, first + 1, lst, v)

\* The content of a new array every slot of which the caller overwrites
\* before it returns.
Raw(n) == [i \in 1..n |-> TypeDefault]

(***************************************************************************)
(* Constructors and destructor                                             *)
(***************************************************************************)

\* SimpleVector(size_t size, const Type& value)
SimpleVectorFill(w, n, v) ==
    LET a == ArrayPtrNew(w, Raw(n))
    IN [w |-> StdFill(a.w, a.p, 0, n, v), c |-> [ptr |-> a.p, size |-> n, cap |-> n]]

\* SimpleVector(size_t size, Type&& value)
SimpleVectorMoveFill(w, n, v) ==
    LET a  == ArrayPtrNew(w, Raw(n))
        t  == ArrayPtrNew(a.w, Raw(n))
        w1 == StdFill(t.w, t.p, 0, n, v)
        sw == ArrayPtrSwap(a.p, t.p)
    IN [w |-> ArrayPtrDelete(w1, sw.b), c |-> [ptr |-> sw.a, size |-> n, cap |-> n]]

\* explicit SimpleVector(size_t size): delegates with the rvalue Type().
SimpleVectorSize(w, n) == SimpleVectorMoveFill(w, n, TypeDefault)

RECURSIVE CopyInit(_, _, _, _)
CopyInit(w, p, init, i) ==
    IF i >= Len(init) THEN w ELSE CopyInit(Wr(w, p, i, init[i + 1]), p, init, i + 1)

\* SimpleVector(std::initializer_list<Type> init)
SimpleVectorList(w, init) ==
    LET a == ArrayPtrNew(w, Raw(Len(init)))
    IN [w |-> CopyInit(a.w, a.p, init, 0),
        c |-> [ptr |-> a.p, size |-> Len(init), cap |-> Len(init)]]

\* ~SimpleVector(): releases items_.
Destroy(w, c) == ArrayPtrDelete(w, c.ptr)

\* The copy constructor without its std::copy.
SimpleVectorCopyNoElements(w, other) ==
    LET a  == ArrayPtrNew(w, Raw(other.size))
        t  == SimpleVectorSize(a.w, other.size)
        sw == ArrayPtrSwap(a.p, t.c.ptr)
    IN [w |-> Destroy(t.w, [t.c EXCEPT !.ptr = sw.b]),
        c |-> [ptr |-> sw.a, size |-> other.size, cap |-> other.cap]]

\* SimpleVector(const SimpleVector& other)
SimpleVectorCopy(w, other) ==
    LET a  == ArrayPtrNew(w, Raw(other.size))
        t  == SimpleVectorSize(a.w, other.size)
        w1 == StdCopy(t.w, other.ptr, 0, other.size, t.c.ptr, 0)
        sw == ArrayPtrSwap(a.p, t.c.ptr)
    IN [w |-> Destroy(w1, [t.c EXCEPT !.ptr = sw.b]),
        c |-> [ptr |-> sw.a, size |-> other.size, cap |-> other.cap]]

\* The move constructor without the reset of other.size_.
SimpleVectorMoveKeepsSize(w, other) ==
    LET a == ArrayPtrNew(w, Raw(other.size))
    IN [w |-> StdCopy(a.w, other.ptr, 0, other.size, a.p, 0),
        c |-> [ptr |-> a.p, size |-> other.size, cap |-> other.cap],
        other |-> [other EXCEPT !.cap = 0]]

\* A move constructor that takes over other's array and leaves other.items_
\* pointing to it.
SimpleVectorMoveSteals(w, other) ==
    [w |-> w,
     c |-> [ptr |-> other.ptr, size |-> other.size, cap |-> other.cap],
     other |-> [other EXCEPT !.size = 0, !.cap = 0]]

\* SimpleVector(SimpleVector&& other)
SimpleVectorMove(w, other) ==
    LET a == ArrayPtrNew(w, Raw(other.size))
    IN [w |-> StdCopy(a.w, other.ptr, 0, other.size, a.p, 0),
        c |-> [ptr |-> a.p, size |-> other.size, cap |-> other.cap],
        other |-> [other EXCEPT !.size = 0, !.cap = 0]]

(***************************************************************************)
(* Member functions                                                        *)
(***************************************************************************)

GetSize(c) == c.size

GetCapacity(c) == c.cap

IsEmpty(c) == c.size = 0

\* operator[](size_t index) used to assign v; index < size_ is the caller's
\* part (the assert).
IndexWrite(w, c, index, v) == Wr(w, c.ptr, index, v)

\* At throwing for index > size_ instead of index >= size_.
AtOffByOne(w, c, index) ==
    IF index > c.size THEN [w |-> w, thrown |-> TRUE, val |-> TypeDefault]
    ELSE [w |-> IF InBounds(w, c.ptr, index) THEN w ELSE [w EXCEPT !.ub = TRUE],
          thrown |-> FALSE, val |-> Rd(w, c.ptr, index)]

\* At(size_t index): thrown when std::out_of_range is thrown, else val is the
\* element the returned reference designates.
At(w, c, index) ==
    IF index >= c.size THEN [w |-> w, thrown |-> TRUE, val |-> TypeDefault]
    ELSE [w |-> IF InBounds(w, c.ptr, index) THEN w ELSE [w EXCEPT !.ub = TRUE],
          thrown |-> FALSE, val |-> Rd(w, c.ptr, index)]

\* Clear()
Clear(c) == [c EXCEPT !.size = 0]

\* Move assignment without the reset of rhs.size_.
MoveAssignKeepsSize(lhs, rhs) ==
    LET sw == ArrayPtrSwap(lhs.ptr, rhs.ptr)
    IN [lhs |-> [lhs EXCEPT !.ptr = sw.a, !.size = rhs.size],
        rhs |-> [rhs EXCEPT !.ptr = sw.b, !.cap = 0]]

\* operator=(SimpleVector&& rhs); lhs and rhs are two objects.
MoveAssign(lhs, rhs) ==
    LET sw == ArrayPtrSwap(lhs.ptr, rhs.ptr)
    IN [lhs |-> [lhs EXCEPT !.ptr = sw.a, !.size = rhs.size],
        rhs |-> [rhs EXCEPT !.ptr = sw.b, !.cap = 0, !.size = 0]]

\* Resize growing to new_size exactly instead of max(capacity_ * 2, new_size).
ResizeExact(w, c, n) ==
    IF n >= c.size
    THEN IF c.cap >= n
         THEN [w |-> StdFill(w, c.ptr, c.size, n, TypeDefault), c |-> [c EXCEPT !.size = n]]
         ELSE LET t  == SimpleVectorSize(w, n)
                  w1 == StdCopy(t.w, c.ptr, 0, c.size, t.c.ptr, 0)
                  w2 == StdFill(w1, t.c.ptr, c.size, n, TypeDefault)
              IN [w |-> Destroy(w2, c), c |-> [ptr |-> t.c.ptr, size |-> n, cap |-> n]]
    ELSE [w |-> w, c |-> [c EXCEPT !.size = n]]

\* Resize(size_t new_size)
Resize(w, c, n) ==
    IF n >= c.size
    THEN IF c.cap >= n
         THEN [w |-> StdFill(w, c.ptr, c.size, n, TypeDefault), c |-> [c EXCEPT !.size = n]]
         ELSE LET t  == SimpleVectorSize(w, Max(c.cap * 2, n))
                  w1 == StdCopy(t.w, c.ptr, 0, c.size, t.c.ptr, 0)
                  w2 == StdFill(w1, t.c.ptr, c.size, n, TypeDefault)
                  m  == MoveAssign(c, [t.c EXCEPT !.size = n])
              IN [w |-> Destroy(w2, m.rhs),
                  c |-> [m.lhs EXCEPT !.cap = Max(m.lhs.cap * 2, n), !.size = n]]
    ELSE [w |-> w, c |-> [c EXCEPT !.size = n]]

\* Reserve(size_t new_capacity); raw is the content of the new array.
Reserve(w, c, n, raw) ==
    IF n > c.cap
    THEN LET a  == ArrayPtrNew(w, raw)
             w1 == StdCopy(a.w, c.ptr, 0, c.size, a.p, 0)
             sw == ArrayPtrSwap(c.ptr, a.p)
         IN [w |-> ArrayPtrDelete(w1, sw.b), c |-> [c EXCEPT !.ptr = sw.a, !.cap = n]]
    ELSE [w |-> w, c |-> c]

\* SimpleVector(ReserveProxyObj obj)
SimpleVectorReserve(w, n, raw) == Reserve(w, SimpleVectorDefault, n, raw)

\* PushBack(const Type&) and PushBack(Type&&)
PushBack(w, c, v) ==
    LET r == Resize(w, c, c.size + 1)
    IN [w |-> Wr(r.w, r.c.ptr, r.c.size - 1, v), c |-> r.c]

\* Insert(ConstIterator pos, Type&& value), pos = begin() + k; raw is the
\* content of the new array of the reallocating branch.
Insert(w, c, k, v, raw) ==
    IF c.cap <= c.size
    THEN IF c.cap = 0
         THEN LET r == PushBack(w, c, v) IN [w |-> r.w, c |-> r.c, ret |-> 0]
         ELSE LET t  == ArrayPtrNew(w, raw)
                  w1 == StdCopy(t.w, c.ptr, 0, k, t.p, 0)
                  w2 == Wr(w1, t.p, k, v)
                  w3 == StdCopyBackward(w2, c.ptr, k, c.size, t.p, c.size + 1)
                  sw == ArrayPtrSwap(c.ptr, t.p)
              IN [w |-> ArrayPtrDelete(w3, sw.b),
                  c |-> [c EXCEPT !.ptr = sw.a, !.size = c.size + 1, !.cap = c.cap * 2],
                  ret |-> k]
    ELSE LET w1 == StdCopyBackward(w, c.ptr, k, c.size, c.ptr, c.size + 1)
         IN [w |-> Wr(w1, c.ptr, k, v), c |-> [c EXCEPT !.size = c.size + 1], ret |-> k]

\* PopBack without the decrement of size_.
PopBackKeepsSize(c) == c

\* PopBack()
PopBack(c) == [c EXCEPT !.size = c.size - 1]

\* Erase shifting the tail with std::copy_backward instead of std::copy.
EraseBackward(w, c, k) ==
    [w |-> StdCopyBackward(w, c.ptr, k + 1, c.size, c.ptr, c.size - 1),
     c |-> [c EXCEPT !.size = c.size - 1],
     ret |-> k]

\* Erase(ConstIterator pos) and Erase(Iterator pos), pos = begin() + k
Erase(w, c, k) ==
    [w |-> StdCopy(w, c.ptr, k + 1, c.size, c.ptr, k),
     c |-> [c EXCEPT !.size = c.size - 1],
     ret |-> k]

\* swap without the exchange of capacity_.
SwapKeepsCapacity(a, b) ==
    LET sw == ArrayPtrSwap(a.ptr, b.ptr)
    IN [a |-> [ptr |-> sw.a, size |-> b.size, cap |-> a.cap],
        b |-> [ptr |-> sw.b, size |-> a.size, cap |-> b.cap]]

\* swap(SimpleVector& other)
Swap(a, b) ==
    LET sw == ArrayPtrSwap(a.ptr, b.ptr)
    IN [a |-> [ptr |-> sw.a, size |-> b.size, cap |-> b.cap],
        b |-> [ptr |-> sw.b, size |-> a.size, cap |-> a.cap]]

\* The elements [begin(), end()) of an object, read from its array.
Range(w, c) == [x \in 1..c.size |-> Rd(w, c.ptr, x - 1)]

\* operator==(lhs, rhs); same: lhs and rhs are one object.
Equal(w, lhs, rhs, same) == same \/ Range(w, lhs) = Range(w, rhs)

\* Copy assignment that builds the copy and never swaps with it.
CopyAssignNoSwap(w, lhs, rhs, same) ==
    IF Equal(w, lhs, rhs, same) THEN [w |-> w, c |-> lhs]
    ELSE LET t == SimpleVectorCopy(w, rhs)
         IN [w |-> Destroy(t.w, t.c), c |-> lhs]

\* operator=(const SimpleVector& rhs)
CopyAssign(w, lhs, rhs, same) ==
    IF Equal(w, lhs, rhs, same) THEN [w |-> w, c |-> lhs]
    ELSE LET t  == SimpleVectorCopy(w, rhs)
             sw == Swap(lhs, t.c)
         IN [w |-> Destroy(t.w, sw.b), c |-> sw.a]

(***************************************************************************)
(* The state machine                                                       *)
(***************************************************************************)

\* The world an operation starts in: the arrays of the two objects, and the
\* addresses its allocations may use.
World == [mem |-> [p \in Ptrs |-> IF p \in Ids THEN mem[p] ELSE <<>>], ub |-> FALSE]

\* Addresses are compared for identity only: object 1's array is kept at
\* address 1 and object 2's at address 2 (at 1 when both hold one address).
NormPtr(v, i) ==
    IF v[i].ptr = 0 THEN 0
    ELSE IF i = 2 /\ v[2].ptr = v[1].ptr THEN 1 ELSE i

NormMem(v, w) ==
    [p \in Ids |-> IF NormPtr(v, p) = p THEN w.mem[v[p].ptr] ELSE <<>>]

\* Slots allocated in all.
HeapUse(m) == Len(m[1]) + Len(m[2])

Op(name, i, j, n, v, ret) ==
    [op |-> name, i |-> i, j |-> j, n |-> n, v |-> v, ret |-> ret,
     pre |-> [vec |-> vec, mem |-> mem]]

NoOp ==
    [op |-> "none", i |-> 0, j |-> 0, n |-> 0, v |-> 0, ret |-> 0,
     pre |-> [vec |-> [i \in Ids |-> SimpleVectorDefault], mem |-> [p \in Ids |-> <<>>]]]

\* The run goes on: no undefined behaviour so far, no operation observed yet.
Running == ~ub /\ last = NoOp

\* An operation returns: v holds the objects, w the heap, l the call.
Commit(v, w, l) ==
    LET m == NormMem(v, w) IN
    /\ HeapUse(m) <= MaxHeap
    /\ vec' = [i \in Ids |-> [v[i] EXCEPT !.ptr = NormPtr(v, i)]]
    /\ mem' = m
    /\ ub' = w.ub
    /\ wild' \in (IF w.ub THEN Values ELSE {TypeDefault})
    /\ last' \in {NoOp, l}

\* The default-constructed object in slot i goes out of scope and the object
\* r.c is declared in its place.
Construct(i, r, l) == Commit([vec EXCEPT ![i] = r.c], r.w, l)

Unused(i) == vec[i] = SimpleVectorDefault

\* What a new array of n slots may hold where the operation that allocates
\* it leaves it unwritten, which is from slot `written` on.
RawArrays(n, written) ==
    {r \in [1..n -> Values] : \A x \in 1..n : x <= written => r[x] = TypeDefault}

Lists == UNION {[1..n -> Values] : n \in 0..MaxCap}

Other(i) == CHOOSE j \in Ids : j # i

Init ==
    /\ vec = [i \in Ids |-> SimpleVectorDefault]
    /\ mem = [p \in Ids |-> <<>>]
    /\ ub = FALSE
    /\ wild = TypeDefault
    /\ last = NoOp

\* The object in slot i is destroyed and a default-constructed one declared.
CtorDefault(i) ==
    /\ Running
    /\ Construct(i, [w |-> Destroy(World, vec[i]), c |-> SimpleVectorDefault],
                 Op("CtorDefault", i, 0, 0, 0, 0))

CtorFill(i) ==
    /\ Running /\ Unused(i)
    /\ \E n \in 0..MaxCap, v \in Values :
          Construct(i, SimpleVectorFill(World, n, v), Op("CtorFill", i, 0, n, v, 0))

CtorSize(i) ==
    /\ Running /\ Unused(i)
    /\ \E n \in 0..MaxCap :
          Construct(i, SimpleVectorSize(World, n), Op("CtorSize", i, 0, n, 0, 0))

CtorList(i) ==
    /\ Running /\ Unused(i)
    /\ \E init \in Lists :
          Construct(i, SimpleVectorList(World, init), Op("CtorList", i, 0, Len(init), 0, 0))

CtorReserve(i) ==
    /\ Running /\ Unused(i)
    /\ \E n \in 0..MaxCap : \E raw \in RawArrays(n, 0) :
          Construct(i, SimpleVectorReserve(World, n, raw), Op("CtorReserve", i, 0, n, 0, 0))

\* Object i is constructed as a copy of the other object.
CtorCopy(i) ==
    /\ Running /\ Unused(i)
    /\ LET j == Other(i) IN
          Construct(i, SimpleVectorCopy(World, vec[j]), Op("CtorCopy", i, j, 0, 0, 0))

\* Object i is constructed from the other object, moved.
CtorMove(i) ==
    /\ Running /\ Unused(i)
    /\ LET j == Other(i)
           r == SimpleVectorMove(World, vec[j])
       IN Commit([vec EXCEPT ![i] = r.c, ![j] = r.other], r.w,
                 Op("CtorMove", i, j, 0, 0, 0))

\* a[index] = v
DoIndexWrite(i) ==
    /\ Running
    /\ \E index \in 0..(vec[i].size - 1), v \in Values :
          Commit(vec, IndexWrite(World, vec[i], index, v), Op("IndexWrite", i, 0, index, v, 0))

\* a.At(index); the call is observed as "AtThrows" when it throws.
DoAt(i) ==
    /\ Running
    /\ \E index \in 0..(MaxCap + 1) :
          LET r == At(World, vec[i], index)
          IN Commit(vec, r.w,
                    Op(IF r.thrown THEN "AtThrows" ELSE "At", i, 0, index, r.val, 0))

DoClear(i) ==
    /\ Running
    /\ Commit([vec EXCEPT ![i] = Clear(vec[i])], World, Op("Clear", i, 0, 0, 0, 0))

DoResize(i) ==
    /\ Running
    /\ \E n \in 0..MaxCap :
          /\ n > vec[i].cap => Max(vec[i].cap * 2, n) <= MaxCap
          /\ LET r == Resize(World, vec[i], n)
             IN Commit([vec EXCEPT ![i] = r.c], r.w, Op("Resize", i, 0, n, 0, 0))

DoReserve(i) ==
    /\ Running
    /\ \E n \in 0..MaxCap :
       \E raw \in RawArrays(IF n > vec[i].cap THEN n ELSE 0, vec[i].size) :
          LET r == Reserve(World, vec[i], n, raw)
          IN Commit([vec EXCEPT ![i] = r.c], r.w, Op("Reserve", i, 0, n, 0, 0))

DoCopyAssign(i) ==
    /\ Running
    /\ \E j \in Ids :
          LET r == CopyAssign(World, vec[i], vec[j], i = j)
          IN Commit([vec EXCEPT ![i] = r.c], r.w, Op("CopyAssign", i, j, 0, 0, 0))

DoMoveAssign(i) ==
    /\ Running
    /\ LET j == Other(i)
           m == MoveAssign(vec[i], vec[j])
       IN Commit([vec EXCEPT ![i] = m.lhs, ![j] = m.rhs], World,
                 Op("MoveAssign", i, j, 0, 0, 0))

DoPushBack(i) ==
    /\ Running
    /\ vec[i].size + 1 > vec[i].cap => Max(vec[i].cap * 2, vec[i].size + 1) <= MaxCap
    /\ \E v \in Values :
          LET r == PushBack(World, vec[i], v)
          IN Commit([vec EXCEPT ![i] = r.c], r.w, Op("PushBack", i, 0, 0, v, 0))

DoInsert(i) ==
    /\ Running
    /\ IF vec[i].cap = 0 THEN vec[i].size + 1 <= MaxCap
       ELSE vec[i].cap <= vec[i].size => vec[i].cap * 2 <= MaxCap
    /\ \E k \in 0..vec[i].size, v \in Values :
       \E raw \in RawArrays(IF vec[i].cap <= vec[i].size THEN vec[i].cap * 2 ELSE 0,
                              vec[i].size + 1) :
          LET r == Insert(World, vec[i], k, v, raw)
          IN Commit([vec EXCEPT ![i] = r.c], r.w, Op("Insert", i, 0, k, v, r.ret))

DoPopBack(i) ==
    /\ Running
    /\ ~IsEmpty(vec[i])
    /\ Commit([vec EXCEPT ![i] = PopBack(vec[i])], World, Op("PopBack", i, 0, 0, 0, 0))

DoErase(i) ==
    /\ Running
    /\ \E k \in 0..(vec[i].size - 1) :
          LET r == Erase(World, vec[i], k)
          IN Commit([vec EXCEPT ![i] = r.c], r.w, Op("Erase", i, 0, k, 0, r.ret))

DoSwap(i) ==
    /\ Running
    /\ \E j \in Ids :
          IF i = j THEN Commit(vec, World, Op("Swap", i, j, 0, 0, 0))
          ELSE LET sw == Swap(vec[i], vec[j])
               IN Commit([vec EXCEPT ![i] = sw.a, ![j] = sw.b], World,
                         Op("Swap", i, j, 0, 0, 0))

Next ==
    \E i \in Ids :
        \/ CtorDefault(i)
        \/ CtorFill(i)
        \/ CtorSize(i)
        \/ CtorList(i)
        \/ CtorReserve(i)
        \/ CtorCopy(i)
        \/ CtorMove(i)
        \/ DoIndexWrite(i)
        \/ DoAt(i)
        \/ DoClear(i)
        \/ DoResize(i)
        \/ DoReserve(i)
        \/ DoCopyAssign(i)
        \/ DoMoveAssign(i)
        \/ DoPushBack(i)
        \/ DoInsert(i)
        \/ DoPopBack(i)
        \/ DoErase(i)
        \/ DoSwap(i)

Spec == Init /\ [][Next]_vars

(***************************************************************************)
(* What an observer of the objects sees                                    *)
(***************************************************************************)

\* The array object i of the objects v holds in the heap m.
ItemsOf(v, m, i) == IF v[i].ptr = 0 THEN <<>> ELSE m[v[i].ptr]

\* The elements [begin(), end()) of that object; a slot outside the array
\* reads as wl.
ElemsOf(v, m, i, wl) ==
    [x \in 1..v[i].size |-> IF x <= Len(ItemsOf(v, m, i)) THEN ItemsOf(v, m, i)[x] ELSE wl]

Items(i) == ItemsOf(vec, mem, i)

\* Slots allocated in the array object i owns.
Alloc(i) == Len(Items(i))

Elems(i) == ElemsOf(vec, mem, i, wild)

\* The same before the observed operation.
Pre(i) == last.pre.vec[i]

PreElems(i) == ElemsOf(last.pre.vec, last.pre.mem, i, TypeDefault)

PreAlloc(i) == Len(ItemsOf(last.pre.vec, last.pre.mem, i))

\* s with v put in front of position k (0-based), and s without position k.
InsertAt(s, k, v) == SubSeq(s, 1, k) \o <<v>> \o SubSeq(s, k + 1, Len(s))

RemoveAt(s, k) == SubSeq(s, 1, k) \o SubSeq(s, k + 2, Len(s))

(***************************************************************************)
(* Claims                                                                  *)
(***************************************************************************)

\* C1: after every public operation every object has 0 <= size <= capacity.
C1_SizeWithinCapacity ==
    \A i \in Ids : 0 <= GetSize(vec[i]) /\ GetSize(vec[i]) <= GetCapacity(vec[i])

\* C2: the capacity an object reports is the number of slots allocated in
\* the array it owns.
C2_CapacityIsAllocated ==
    \A i \in Ids : GetCapacity(vec[i]) = Alloc(i)

\* C3: a copy-constructed object compares equal to its source, with the
\* source's size and elements in order, and the source keeps its size,
\* capacity and elements.
C3_CopyEqualsSource ==
    last.op = "CtorCopy" =>
        /\ Equal(World, vec[last.i], vec[last.j], FALSE)
        /\ GetSize(vec[last.i]) = GetSize(Pre(last.j))
        /\ Elems(last.i) = PreElems(last.j)
        /\ GetSize(vec[last.j]) = GetSize(Pre(last.j))
        /\ GetCapacity(vec[last.j]) = GetCapacity(Pre(last.j))
        /\ Elems(last.j) = PreElems(last.j)

C3_Witness ==
    /\ last.op = "CtorCopy"
    /\ GetSize(Pre(last.j)) >= 2
    /\ GetCapacity(Pre(last.j)) > GetSize(Pre(last.j))
    /\ \E x \in 1..Len(PreElems(last.j)) : PreElems(last.j)[x] # PreElems(last.j)[1]

\* C4: a copy-constructed object reports as its capacity the size of its
\* source.
C4_CopyCapacityIsSourceSize ==
    last.op = "CtorCopy" => GetCapacity(vec[last.i]) = GetSize(Pre(last.j))

\* C5: move construction leaves the source with size 0 and capacity 0, and
\* the new object holds the source's former elements and size.
C5_MoveConstruct ==
    last.op = "CtorMove" =>
        /\ GetSize(vec[last.j]) = 0
        /\ GetCapacity(vec[last.j]) = 0
        /\ GetSize(vec[last.i]) = GetSize(Pre(last.j))
        /\ Elems(last.i) = PreElems(last.j)

C5_Witness ==
    /\ last.op = "CtorMove"
    /\ GetSize(Pre(last.j)) >= 2
    /\ GetCapacity(Pre(last.j)) > GetSize(Pre(last.j))
    /\ \E x \in 1..Len(PreElems(last.j)) : PreElems(last.j)[x] # PreElems(last.j)[1]

\* What a caller observes of the result r = [w, c] of an operation.
Observed(r) == [size |-> r.c.size, cap |-> r.c.cap, elems |-> Range(r.w, r.c), ub |-> r.w.ub]

\* C6: after a = std::move(b) on two objects, a holds b's former elements and
\* size, b has size 0 and capacity 0, and PushBack, Resize and Insert on b
\* do what they do on a default-constructed object.
C6_MoveAssign ==
    last.op = "MoveAssign" =>
        /\ GetSize(vec[last.i]) = GetSize(Pre(last.j))
        /\ Elems(last.i) = PreElems(last.j)
        /\ GetSize(vec[last.j]) = 0
        /\ GetCapacity(vec[last.j]) = 0
        /\ \A v \in Values :
              /\ Observed(PushBack(World, vec[last.j], v))
                    = [size |-> 1, cap |-> 1, elems |-> <<v>>, ub |-> FALSE]
              /\ Observed(Insert(World, vec[last.j], 0, v, <<>>))
                    = [size |-> 1, cap |-> 1, elems |-> <<v>>, ub |-> FALSE]
        /\ \A n \in 0..MaxCap :
              Observed(Resize(World, vec[last.j], n))
                 = [size |-> n, cap |-> n, elems |-> [x \in 1..n |-> TypeDefault], ub |-> FALSE]

C6_Witness ==
    /\ last.op = "MoveAssign"
    /\ GetSize(Pre(last.j)) >= 2
    /\ GetSize(Pre(last.i)) >= 1
    /\ PreElems(last.j)[1] # PreElems(last.j)[2]

C8_PushBackAppends ==
    last.op = "PushBack" => Elems(last.i) = Append(PreElems(last.i), last.v)

\* C9: Insert(begin() + k, v) yields the former elements with v put in front
\* of position k, and returns the position k.
C9_InsertAtPosition ==
    last.op = "Insert" =>
        /\ Elems(last.i) = InsertAt(PreElems(last.i), last.n, last.v)
        /\ last.ret = last.n

\* C10: Erase(begin() + k) yields the former elements without position k,
\* returns the position k (end() when the last element was erased) and
\* leaves the capacity as it is.
C10_EraseAtPosition ==
    last.op = "Erase" =>
        /\ Elems(last.i) = RemoveAt(PreElems(last.i), last.n)
        /\ GetSize(vec[last.i]) = GetSize(Pre(last.i)) - 1
        /\ last.ret = last.n
        /\ last.n = GetSize(Pre(last.i)) - 1 => last.ret = GetSize(vec[last.i])
        /\ GetCapacity(vec[last.i]) = GetCapacity(Pre(last.i))

C10_Witness ==
    /\ last.op = "Erase"
    /\ GetSize(Pre(last.i)) >= 3
    /\ last.n = 1
    /\ PreElems(last.i)[1] # PreElems(last.i)[3]

\* C11: Insert(begin() + k, v) followed by Erase(begin() + k) gives back the
\* former elements and the former size.
C11_InsertThenErase ==
    last.op = "Insert" =>
        LET e == Erase(World, vec[last.i], last.n) IN
        /\ Range(e.w, e.c) = PreElems(last.i)
        /\ GetSize(e.c) = GetSize(Pre(last.i))

C13_At ==
    last.op \in {"At", "AtThrows"} =>
        /\ last.op = "AtThrows" <=> last.n >= GetSize(Pre(last.i))
        /\ last.op = "At" => last.v = PreElems(last.i)[last.n + 1]
        /\ GetSize(vec[last.i]) = GetSize(Pre(last.i))
        /\ GetCapacity(vec[last.i]) = GetCapacity(Pre(last.i))
        /\ Elems(last.i) = PreElems(last.i)

C13_Witness ==
    /\ last.op = "AtThrows"
    /\ GetSize(Pre(last.i)) = 3
    /\ last.n = 5

\* C14: Resize(n) with n > size keeps the former elements and makes the
\* elements [size, n) the default value, whatever those slots held; Resize(n)
\* with n < size keeps the elements [0, n), makes the size n and leaves the
\* capacity as it is.
C14_ResizeElements ==
    last.op = "Resize" =>
        LET s == GetSize(Pre(last.i)) IN
        /\ last.n > s =>
              Elems(last.i) = PreElems(last.i) \o [x \in 1..(last.n - s) |-> TypeDefault]
        /\ last.n < s =>
              /\ Elems(last.i) = SubSeq(PreElems(last.i), 1, last.n)
              /\ GetSize(vec[last.i]) = last.n
              /\ GetCapacity(vec[last.i]) = GetCapacity(Pre(last.i))

\* C15: Reserve(n) with n > capacity makes the capacity n and keeps size and
\* elements; with n <= capacity it changes nothing.  The reserve-request
\* constructor gives size 0 and the requested capacity.
C15_Reserve ==
    /\ last.op = "Reserve" =>
          /\ GetSize(vec[last.i]) = GetSize(Pre(last.i))
          /\ Elems(last.i) = PreElems(last.i)
          /\ IF last.n > GetCapacity(Pre(last.i))
             THEN GetCapacity(vec[last.i]) = last.n
             ELSE /\ GetCapacity(vec[last.i]) = GetCapacity(Pre(last.i))
                  /\ Items(last.i) = ItemsOf(last.pre.vec, last.pre.mem, last.i)
    /\ last.op = "CtorReserve" =>
          /\ GetSize(vec[last.i]) = 0
          /\ GetCapacity(vec[last.i]) = last.n

C15_Witness ==
    /\ last.op = "Reserve"
    /\ last.n > GetCapacity(Pre(last.i))
    /\ GetSize(Pre(last.i)) >= 2
    /\ PreElems(last.i)[1] # PreElems(last.i)[2]

\* C16: after a = b (a and b two objects, equal or not, or one object) a has
\* b's size and elements, and b keeps its size, capacity and elements.
C16_CopyAssign ==
    last.op = "CopyAssign" =>
        /\ GetSize(vec[last.i]) = GetSize(Pre(last.j))
        /\ Elems(last.i) = PreElems(last.j)
        /\ GetSize(vec[last.j]) = GetSize(Pre(last.j))
        /\ GetCapacity(vec[last.j]) = GetCapacity(Pre(last.j))
        /\ Elems(last.j) = PreElems(last.j)

C16_Witness ==
    /\ last.op = "CopyAssign"
    /\ last.i # last.j
    /\ GetSize(Pre(last.i)) >= 1
    /\ GetSize(Pre(last.j)) = 2
    /\ PreElems(last.j)[1] # PreElems(last.j)[2]
    /\ PreElems(last.i)[1] # PreElems(last.j)[1]

\* The objects v after v[i].swap(v[j]).
Swapped(v, i, j) ==
    IF i = j THEN v ELSE [v EXCEPT ![i] = Swap(v[i], v[j]).a, ![j] = Swap(v[i], v[j]).b]

\* C17: a.swap(b) gives each object the other's former elements, size and
\* capacity, and a second a.swap(b) gives both back their own.
C17_Swap ==
    last.op = "Swap" =>
        /\ \A x \in {last.i, last.j} :
              LET y == IF x = last.i THEN last.j ELSE last.i IN
              /\ Elems(x) = PreElems(y)
              /\ GetSize(vec[x]) = GetSize(Pre(y))
              /\ GetCapacity(vec[x]) = GetCapacity(Pre(y))
        /\ LET v2 == Swapped(vec, last.i, last.j) IN
           \A x \in {last.i, last.j} :
              /\ ElemsOf(v2, mem, x, wild) = PreElems(x)
              /\ GetSize(v2[x]) = GetSize(Pre(x))
              /\ GetCapacity(v2[x]) = GetCapacity(Pre(x))

C17_Witness ==
    /\ last.op = "Swap"
    /\ last.i # last.j
    /\ GetSize(Pre(last.i)) = 2
    /\ GetSize(Pre(last.j)) = 1
    /\ GetCapacity(Pre(last.j)) = 2
    /\ PreElems(last.i)[1] # PreElems(last.j)[1]

\* C18: Resize(n) with n > capacity makes the capacity max(2 * capacity, n) and
\* the size n; Resize(n) with n <= capacity leaves the capacity as it is.
C18_ResizeCapacity ==
    last.op = "Resize" =>
        IF last.n > GetCapacity(Pre(last.i))
        THEN /\ GetCapacity(vec[last.i]) = Max(2 * GetCapacity(Pre(last.i)), last.n)
             /\ GetSize(vec[last.i]) = last.n
        ELSE GetCapacity(vec[last.i]) = GetCapacity(Pre(last.i))

C18_Witness ==
    /\ last.op = "Resize"
    /\ GetCapacity(Pre(last.i)) = 2
    /\ last.n = 3
    /\ GetCapacity(vec[last.i]) = 4

\* C19: no operation reads or writes a slot at an index at or beyond the
\* number of slots allocated in the array.
C19_NoOutOfBounds == ~ub

====
